---- MODULE Spec2Model ----
(***************************************************************************)
(* State-machine model of half_sumo_monitor.py: one poll cycle is one run  *)
(* of main(); the two Supabase tables persist between runs.                *)
(*                                                                         *)
(* Strings that the program inspects (titles, button labels, the keyword,  *)
(* stringified ids) are sequences of one-character strings, so that        *)
(* lower(), `in` and str() are computed rather than assumed.               *)
(***************************************************************************)
EXTENDS Integers, Sequences, FiniteSets, TLC

(***************************************************************************)
(* Bounds of the model.                                                    *)
(***************************************************************************)
MaxCycles == 2          \* runs of main() explored by Spec
MaxProducts == 2        \* length of the catalog's "products" list
MaxId == 2              \* number of distinct product ids
MaxArcCycles == 6       \* runs of main() explored by SpecArc
MaxEvents == 27         \* new items of one run explored by SpecPayload

Procs == {1, 2}         \* processes that may run the script
FirstId == 100          \* product ids are FirstId, FirstId + 1, ...
Ids == FirstId..(FirstId + MaxId - 1)

(***************************************************************************)
(* Python string operations.                                               *)
(***************************************************************************)
LowerChar(c) ==
  CASE c = "B" -> "b"
    [] c = "R" -> "r"
    [] c = "H" -> "h"
    [] c = "O" -> "o"
    [] c = "C" -> "c"
    [] c = "A" -> "a"
    [] OTHER -> c

\* str.lower()
Lower(s) == [i \in 1..Len(s) |-> LowerChar(s[i])]

\* needle in hay (substring test; the empty needle is in every string)
Contains(needle, hay) ==
  \E i \in 1..(Len(hay) - Len(needle) + 1) :
     SubSeq(hay, i, i + Len(needle) - 1) = needle

Digits == <<"0", "1", "2", "3", "4", "5", "6", "7", "8", "9">>

\* str(n) of a non-negative int
RECURSIVE Str(_)
Str(n) == IF n < 10 THEN <<Digits[n + 1]>>
          ELSE Str(n \div 10) \o <<Digits[(n % 10) + 1]>>

(***************************************************************************)
(* Configuration (lines 15-21).                                            *)
(***************************************************************************)
HALF_SUMO_KEYWORD == <<"b", "e", "l", "t">>
ARCTERYX_URL == "https://arcteryx.com/us/en/shop/bird-head-toque"
ARCTERYX_PRODUCT_NAME == "Bird Head Toque"
ARCTERYX_VARIANT == <<"O", "r", "c", "a">>
ARCTERYX_ID == "bird-head-toque-orca"

(***************************************************************************)
(* The catalog's products: what GET HALF_SUMO_URL can return.              *)
(***************************************************************************)
RedBelt == <<"R", "e", "d", " ", "B", "e", "l", "t">>
Hat == <<"H", "a", "t">>

HandleOf(title) == IF title = RedBelt THEN "red-belt" ELSE "hat"

Product(id, title, variants, tags) ==
  [id |-> id, title |-> title, variants |-> variants,
   handle |-> HandleOf(title), tags |-> tags]

\* Shapes of one product: a belt at either of two prices, a belt without
\* variants, a belt tagged 'arcteryx', and a product that is no belt.
CatalogItems ==
  UNION { { Product(id, RedBelt, << [price |-> "29.99"] >>, {}),
            Product(id, RedBelt, << >>, {}),
            Product(id, RedBelt, << [price |-> "29.99"] >>, {"arcteryx"}),
            Product(id, Hat, << [price |-> "29.99"] >>, {}) } : id \in Ids }

RECURSIVE SeqsUpTo(_, _)
SeqsUpTo(S, n) ==
  IF n = 0 THEN { << >> }
  ELSE LET shorter == SeqsUpTo(S, n - 1)
       IN  shorter \cup { Append(s, x) : s \in { t \in shorter : Len(t) = n - 1 }, x \in S }

Catalogs == SeqsUpTo(CatalogItems, MaxProducts)


(***************************************************************************)
(* The store: table seen_items, keyed by id.                               *)
(***************************************************************************)
NoRow == [absent |-> TRUE]

\* supabase.table(t).upsert(rows): insert or overwrite by primary key
RECURSIVE Upsert(_, _)
Upsert(table, rows) ==
  IF rows = << >> THEN table
  ELSE Upsert([table EXCEPT ![Head(rows).id] =
                 [title |-> Head(rows).title, price |-> Head(rows).price]],
              Tail(rows))

StoredIds(table) == { id \in DOMAIN table : table[id] # NoRow }

\* a variant that has the ids even when the select raises
load_existing_ids_IgnoresFailure(table, ok) ==
  { Str(id) : id \in StoredIds(table) }

\* load_existing_ids(): the stringified ids of seen_items, or the empty set
\* when the select raises
load_existing_ids(table, ok) ==
  IF ok THEN { Str(id) : id \in StoredIds(table) } ELSE {}

\* the price save_all_belts stores for an item
FirstPrice(item) ==
  IF item.variants # << >> THEN item.variants[1].price ELSE "0.00"

SkippedBySave(item) == "arcteryx" \in item.tags

\* data_to_upsert of save_all_belts(items)
RECURSIVE DataToUpsert(_)
DataToUpsert(items) ==
  IF items = << >> THEN << >>
  ELSE LET item == Head(items)
           rest == DataToUpsert(Tail(items))
       IN  IF SkippedBySave(item) THEN rest
           ELSE << [id |-> item.id, title |-> item.title,
                    price |-> FirstPrice(item)] >> \o rest

\* save_all_belts(items): the table afterwards; ok = FALSE is an upsert that
\* raised (caught, nothing is written)
save_all_belts(table, items, ok) ==
  IF items = << >> THEN table
  ELSE LET data_to_upsert == DataToUpsert(items)
       IN  IF data_to_upsert # << >> /\ ok THEN Upsert(table, data_to_upsert)
           ELSE table

(***************************************************************************)
(* main(), step 1: the loop over the catalog's products.                   *)
(***************************************************************************)
\* a variant without the keyword filter
IsBelt_Any(product) == TRUE

\* HALF_SUMO_KEYWORD in product.get("title", "").lower()
IsBelt(product) == Contains(HALF_SUMO_KEYWORD, Lower(product.title))

\* a variant that alerts on every belt
IsNew_Always(product, existing) == TRUE

\* str_id not in existing_ids
IsNew(product, existing) == Str(product.id) \notin existing

\* The loop of lines 265-275 from product i on: writeOk[i] tells whether the
\* upsert of the i-th product succeeds.  Yields the table and found_items.
RECURSIVE CatalogLoop(_, _, _, _, _, _)
CatalogLoop(prods, i, existing, table, found, writeOk) ==
  IF i > Len(prods) THEN [table |-> table, found |-> found]
  ELSE LET product == prods[i]
       IN  IF IsBelt(product)
           THEN CatalogLoop(prods, i + 1, existing,
                            save_all_belts(table, << product >>, writeOk[i]),
                            IF IsNew(product, existing)
                              THEN Append(found, product) ELSE found,
                            writeOk)
           ELSE CatalogLoop(prods, i + 1, existing, table, found, writeOk)

(***************************************************************************)
(* check_arcteryx_stock(): the product page and the scan of its buttons.   *)
(***************************************************************************)
Orca == <<"O", "r", "c", "a">>
OrcaUpper == <<"O", "R", "C", "A">>
Black == <<"B", "l", "a", "c", "k">>

Button(text, aria, classes) == [text |-> text, aria |-> aria, classes |-> classes]

\* What GET ARCTERYX_URL can return with a 2xx status: no fieldset at all, or
\* a fieldset of option buttons.
Pages ==
  { [fieldset |-> FALSE, buttons |-> << >>],
    [fieldset |-> TRUE, buttons |-> << Button(Black, << >>, {}) >>],
    [fieldset |-> TRUE, buttons |-> << Button(Black, << >>, {}), Button(Orca, << >>, {}) >>],
    [fieldset |-> TRUE, buttons |-> << Button(OrcaUpper, << >>, {"no--stock"}) >>],
    [fieldset |-> TRUE, buttons |-> << Button(<< >>, Orca, {"selected"}) >>],
    [fieldset |-> TRUE, buttons |-> << Button(Orca, << >>, {"no--stock"}),
                                        Button(Orca, << >>, {}) >>] }

\* btn.get_text() or btn.get('aria-label', '')
BtnText(btn) == IF btn.text # << >> THEN btn.text ELSE btn.aria

MatchesVariant(btn) == Contains(Lower(ARCTERYX_VARIANT), Lower(BtnText(btn)))

\* lines 108-128: the first button that names the variant decides
RECURSIVE ScanButtons(_)
ScanButtons(buttons) ==
  IF buttons = << >> THEN [variant_found |-> FALSE, is_in_stock |-> FALSE]
  ELSE IF MatchesVariant(Head(buttons))
       THEN [variant_found |-> TRUE,
             is_in_stock |-> "no--stock" \notin Head(buttons).classes]
       ELSE ScanButtons(Tail(buttons))

\* a variant that takes a variant it cannot find to be in stock
ScanPage_MissingIsInStock(page) ==
  IF page.fieldset /\ ScanButtons(page.buttons).variant_found
    THEN ScanButtons(page.buttons)
    ELSE [variant_found |-> FALSE, is_in_stock |-> TRUE]

ScanPage(page) ==
  IF page.fieldset THEN ScanButtons(page.buttons)
  ELSE [variant_found |-> FALSE, is_in_stock |-> FALSE]

\* a level-triggered variant: alert whenever the variant is in stock
ShouldAlert_LevelTriggered(is_in_stock, prev_in_stock) == is_in_stock

\* line 157: alert only on currently in stock and not previously in stock
ShouldAlert(is_in_stock, prev_in_stock) == is_in_stock /\ ~prev_in_stock

\* lines 158-165
RestockItem ==
  [id |-> ARCTERYX_ID, title |-> "RESTOCK: Bird Head Toque (Orca)",
   variants |-> << [price |-> "Check Site"] >>, handle |-> "bird-head-toque",
   link |-> ARCTERYX_URL, tags |-> {"arcteryx"}]

\* a variant that never records the variant as out of stock
TrackerRow_NeverClears(is_in_stock, now) ==
  [variant_id |-> ARCTERYX_ID, product_name |-> ARCTERYX_PRODUCT_NAME,
   variant_name |-> ARCTERYX_VARIANT, in_stock |-> TRUE,
   last_checked |-> now]

\* the row written to arcteryx_tracker (lines 146-152)
TrackerRow(is_in_stock, now) ==
  [variant_id |-> ARCTERYX_ID, product_name |-> ARCTERYX_PRODUCT_NAME,
   variant_name |-> ARCTERYX_VARIANT, in_stock |-> is_in_stock,
   last_checked |-> now]

\* lines 137-143: the previous in_stock, False when there is no row or the
\* select raises
PrevInStock(row, ok) == IF ok /\ row # NoRow THEN row.in_stock ELSE FALSE

(***************************************************************************)
(* Rendering of one event (lines 181-191 and 217-230).                     *)
(***************************************************************************)
\* item.get('variants', [{}])[0] raises IndexError on an empty list
RenderRaises(item) == "variants" \in DOMAIN item /\ item.variants = << >>

RenderPrice(item) ==
  IF "variants" \in DOMAIN item THEN item.variants[1].price ELSE "N/A"

\* a variant that builds every link from the handle
RenderLink_FromHandle(item) == <<"https://halfsumo.com/products/", item.handle>>

RenderLink(item) ==
  IF "link" \in DOMAIN item THEN item.link
  ELSE <<"https://halfsumo.com/products/", item.handle>>

RenderEntry(item) ==
  [title |-> item.title, price |-> RenderPrice(item), link |-> RenderLink(item)]

RenderAll(items) == [i \in 1..Len(items) |-> RenderEntry(items[i])]

AnyRenderRaises(items) == \E i \in 1..Len(items) : RenderRaises(items[i])

\* The counts that lines 286-291 and the two notification functions print:
\* line 287 prints len(found_items); lines 177, 205-207, 214 and 246-248
\* print no count.
LoggedCounts(new_items) == { Len(new_items) }

\* fields[:25]
DISCORD_MAX_FIELDS == 25
Truncate(fields) ==
  IF Len(fields) > DISCORD_MAX_FIELDS THEN SubSeq(fields, 1, DISCORD_MAX_FIELDS)
  ELSE fields

(***************************************************************************)
(* State.                                                                  *)
(***************************************************************************)
VARIABLES
  env,              \* os.environ as read at lines 25 and 38-43 (TRUE = set)
  seen_items,       \* table seen_items: id -> row, or NoRow
  arcteryx_tracker, \* the row of ARCTERYX_ID in table arcteryx_tracker, or NoRow
  cycles,           \* runs of the script started so far; also datetime.now()
  pc,               \* where each run is
  products,         \* main: products
  existing_ids,     \* main: existing_ids
  found_items,      \* main: found_items
  is_in_stock,      \* check_arcteryx_stock: is_in_stock
  prev_in_stock,    \* check_arcteryx_stock: prev_in_stock
  email,            \* what send_email_notification did in this run
  discord,          \* what send_discord_notification did in this run
  exit_code,        \* exit status of a finished run
  cyc,              \* history of the current run, for stating properties
  hist              \* history across runs, for stating properties

vars == <<env, seen_items, arcteryx_tracker, cycles, pc, products, existing_ids,
          found_items, is_in_stock, prev_in_stock, email, discord, exit_code,
          cyc, hist>>

store == <<seen_items, arcteryx_tracker>>
catalog_locals == <<products, existing_ids>>
arc_locals == <<is_in_stock, prev_in_stock>>
channels == <<email, discord>>

\* Environments: the store key missing; or present with both channels
\* configured, the e-mail alone, the webhook alone (the e-mail lacking its
\* password), or nothing set for either channel.
Envs ==
  { [SUPABASE_KEY |-> FALSE, SENDER_EMAIL |-> TRUE, SENDER_PASSWORD |-> TRUE,
     RECEIVER_EMAIL |-> TRUE, DISCORD_WEBHOOK_URL |-> TRUE] }
  \cup
  { [SUPABASE_KEY |-> TRUE, SENDER_EMAIL |-> m[1], SENDER_PASSWORD |-> m[2],
     RECEIVER_EMAIL |-> m[3], DISCORD_WEBHOOK_URL |-> m[4]] :
       m \in { <<TRUE, TRUE, TRUE, TRUE>>, <<TRUE, TRUE, TRUE, FALSE>>,
               <<TRUE, FALSE, TRUE, TRUE>>, <<FALSE, FALSE, FALSE, FALSE>> } }

\* a variant that only looks at the sender's address
EmailEnabled_SenderOnly(e) == e.SENDER_EMAIL

\* line 174
EmailEnabled(e) == e.SENDER_EMAIL /\ e.SENDER_PASSWORD /\ e.RECEIVER_EMAIL
\* line 211
DiscordEnabled(e) == e.DISCORD_WEBHOOK_URL

NotCalled == [status |-> "not called", body |-> << >>]

NewCyc(n, table, row, notified) ==
  [n |-> n, seen_before |-> StoredIds(table), tracker_before |-> row,
   notified_before |-> notified, catalog |-> "none", load_ok |-> TRUE, writes_ok |-> TRUE,
   arc |-> "none", variant_found |-> FALSE, read_ok |-> TRUE, upsert |-> "none"]

Init ==
  /\ env \in Envs
  /\ seen_items = [id \in Ids |-> NoRow]
  /\ arcteryx_tracker = NoRow
  /\ cycles = 0
  /\ pc = [p \in Procs |-> "idle"]
  /\ products = [p \in Procs |-> << >>]
  /\ existing_ids = [p \in Procs |-> {}]
  /\ found_items = [p \in Procs |-> << >>]
  /\ is_in_stock = [p \in Procs |-> FALSE]
  /\ prev_in_stock = [p \in Procs |-> FALSE]
  /\ email = [p \in Procs |-> NotCalled]
  /\ discord = [p \in Procs |-> NotCalled]
  /\ exit_code = [p \in Procs |-> 0]
  /\ cyc = [p \in Procs |-> NewCyc(0, seen_items, NoRow, {})]
  /\ hist = [notified |-> {}, store_ok |-> TRUE,
             arc_ok |-> TRUE, obs |-> << >>, found |-> << >>, restocks |-> 0]

(***************************************************************************)
(* Starting a run: module initialisation (lines 25-43) and the head of     *)
(* main() (lines 251-253).  Without SUPABASE_KEY the script exits 1.       *)
(***************************************************************************)
\* a variant that does not check the key
StoreKeyPresent_NotChecked(e) == TRUE

\* line 28: not SUPABASE_KEY is false
StoreKeyPresent(e) == e.SUPABASE_KEY

Begin(p) ==
  /\ pc[p] \in {"idle", "done"}
  /\ cycles' = cycles + 1
  /\ products' = [products EXCEPT ![p] = << >>]
  /\ existing_ids' = [existing_ids EXCEPT ![p] = {}]
  /\ found_items' = [found_items EXCEPT ![p] = << >>]
  /\ is_in_stock' = [is_in_stock EXCEPT ![p] = FALSE]
  /\ prev_in_stock' = [prev_in_stock EXCEPT ![p] = FALSE]
  /\ email' = [email EXCEPT ![p] = NotCalled]
  /\ discord' = [discord EXCEPT ![p] = NotCalled]
  /\ cyc' = [cyc EXCEPT ![p] = NewCyc(cycles + 1, seen_items, arcteryx_tracker, hist.notified)]
  /\ IF StoreKeyPresent(env)
       THEN /\ pc' = [pc EXCEPT ![p] = "fetch"]
            /\ exit_code' = [exit_code EXCEPT ![p] = 0]
       ELSE /\ pc' = [pc EXCEPT ![p] = "done"]
            /\ exit_code' = [exit_code EXCEPT ![p] = 1]
  /\ UNCHANGED <<env, store, hist>>

\* The scheduler starts a run when no other run is alive.
Start(p) ==
  /\ cycles < MaxCycles
  /\ \A q \in Procs : pc[q] \in {"idle", "done"}
  /\ Begin(p)

(***************************************************************************)
(* main(), step 1 (lines 256-278).                                         *)
(***************************************************************************)
\* a variant in which a catalog error ends main()
AfterCatalogError_Abort == "done"

\* where main() continues when the catalog request or its parsing raises
AfterCatalogError == "arc_fetch"

\* requests.get / raise_for_status / json() raises: caught at line 277
FetchCatalogFail(p) ==
  /\ pc[p] = "fetch"
  /\ pc' = [pc EXCEPT ![p] = AfterCatalogError]
  /\ cyc' = [cyc EXCEPT ![p].catalog = "failed"]
  /\ UNCHANGED <<env, store, cycles, catalog_locals, found_items, arc_locals,
                 channels, exit_code, hist>>

\* lines 258-260
FetchCatalogOk(p) ==
  /\ pc[p] = "fetch"
  /\ \E c \in Catalogs : products' = [products EXCEPT ![p] = c]
  /\ pc' = [pc EXCEPT ![p] = "load"]
  /\ cyc' = [cyc EXCEPT ![p].catalog = "ok"]
  /\ UNCHANGED <<env, store, cycles, existing_ids, found_items, arc_locals,
                 channels, exit_code, hist>>

\* line 262
LoadExistingIds(p) ==
  /\ pc[p] = "load"
  /\ \E ok \in BOOLEAN :
       /\ existing_ids' = [existing_ids EXCEPT ![p] = load_existing_ids(seen_items, ok)]
       /\ cyc' = [cyc EXCEPT ![p].load_ok = ok]
       /\ hist' = [hist EXCEPT !.store_ok = @ /\ ok]
  /\ pc' = [pc EXCEPT ![p] = "loop"]
  /\ UNCHANGED <<env, store, cycles, products, found_items, arc_locals,
                 channels, exit_code>>

\* the products for which save_all_belts sends an upsert
Upserted(prods) ==
  { i \in 1..Len(prods) : IsBelt(prods[i]) /\ ~SkippedBySave(prods[i]) }

IdsIn(items) == { items[i].id : i \in 1..Len(items) }

\* lines 265-275, all iterations
RunCatalogLoop(p) ==
  /\ pc[p] = "loop"
  /\ \E writeOk \in [1..Len(products[p]) -> BOOLEAN] :
       /\ \A i \in 1..Len(products[p]) : i \notin Upserted(products[p]) => writeOk[i]
       /\ LET r == CatalogLoop(products[p], 1, existing_ids[p], seen_items,
                               found_items[p], writeOk)
              ok == \A i \in 1..Len(products[p]) : writeOk[i]
          IN  /\ seen_items' = r.table
              /\ found_items' = [found_items EXCEPT ![p] = r.found]
              /\ cyc' = [cyc EXCEPT ![p].writes_ok = ok]
              /\ hist' = [hist EXCEPT
                   !.store_ok = @ /\ ok,
                   !.notified = @ \cup IdsIn(r.found)]
  /\ pc' = [pc EXCEPT ![p] = "arc_fetch"]
  /\ UNCHANGED <<env, arcteryx_tracker, cycles, catalog_locals, arc_locals,
                 channels, exit_code>>

(***************************************************************************)
(* main(), step 2: check_arcteryx_stock() (lines 82-170, 282-283).         *)
(***************************************************************************)
\* the history of checks is kept while every check so far went through
ArcBroken(h) ==
  [h EXCEPT !.arc_ok = FALSE, !.obs = << >>, !.found = << >>, !.restocks = 0]

\* a variant in which a failed request records the variant as out of stock
ArcFetchFail_RecordsOutOfStock(p) ==
  /\ pc[p] = "arc_fetch"
  /\ pc' = [pc EXCEPT ![p] = "notify"]
  /\ cyc' = [cyc EXCEPT ![p].arc = "failed"]
  /\ hist' = ArcBroken(hist)
  /\ arcteryx_tracker' = TrackerRow(FALSE, cycles)
  /\ UNCHANGED <<env, seen_items, cycles, catalog_locals, found_items, arc_locals,
                 channels, exit_code>>

\* requests.get or raise_for_status raises: caught at line 167, returns []
ArcFetchFail(p) ==
  /\ pc[p] = "arc_fetch"
  /\ pc' = [pc EXCEPT ![p] = "notify"]
  /\ cyc' = [cyc EXCEPT ![p].arc = "failed"]
  /\ hist' = ArcBroken(hist)
  /\ UNCHANGED <<env, store, cycles, catalog_locals, found_items, arc_locals,
                 channels, exit_code>>

\* lines 94-131
ArcFetchOk(p) ==
  /\ pc[p] = "arc_fetch"
  /\ \E page \in Pages :
       /\ is_in_stock' = [is_in_stock EXCEPT ![p] = ScanPage(page).is_in_stock]
       /\ cyc' = [cyc EXCEPT ![p].arc = "ok",
                             ![p].variant_found = ScanPage(page).variant_found]
  /\ pc' = [pc EXCEPT ![p] = "arc_read"]
  /\ UNCHANGED <<env, store, cycles, catalog_locals, found_items, prev_in_stock,
                 channels, exit_code, hist>>

\* lines 137-143
ArcReadPrevious(p) ==
  /\ pc[p] = "arc_read"
  /\ \E ok \in BOOLEAN :
       /\ prev_in_stock' = [prev_in_stock EXCEPT ![p] = PrevInStock(arcteryx_tracker, ok)]
       /\ cyc' = [cyc EXCEPT ![p].read_ok = ok]
       /\ hist' = IF ok THEN hist ELSE [ArcBroken(hist) EXCEPT !.store_ok = FALSE]
  /\ pc' = [pc EXCEPT ![p] = "arc_upsert"]
  /\ UNCHANGED <<env, store, cycles, catalog_locals, found_items, is_in_stock,
                 channels, exit_code>>

\* what check_arcteryx_stock returns once the upsert of line 153 went through
ArcResult(in_stock, prev) ==
  IF ShouldAlert(in_stock, prev) THEN << RestockItem >> ELSE << >>

\* what it returns when the upsert of line 153 raises: the except clause of
\* line 167 is the only handler, and line 170 returns []
ArcResultOnUpsertError(in_stock, prev) == << >>

\* lines 146-165, then line 283
ArcUpsertOk(p) ==
  /\ pc[p] = "arc_upsert"
  /\ arcteryx_tracker' = TrackerRow(is_in_stock[p], cycles)
  /\ LET arcteryx_items == ArcResult(is_in_stock[p], prev_in_stock[p])
     IN  /\ found_items' = [found_items EXCEPT ![p] = @ \o arcteryx_items]
         /\ hist' = IF hist.arc_ok
                      THEN [hist EXCEPT !.obs = Append(@, is_in_stock[p]),
                                        !.found = Append(@, cyc[p].variant_found),
                                        !.restocks = @ + Len(arcteryx_items)]
                      ELSE hist
  /\ pc' = [pc EXCEPT ![p] = "notify"]
  /\ cyc' = [cyc EXCEPT ![p].upsert = "ok"]
  /\ UNCHANGED <<env, seen_items, cycles, catalog_locals, arc_locals, channels,
                 exit_code>>

\* line 153 raises
ArcUpsertFail(p) ==
  /\ pc[p] = "arc_upsert"
  /\ found_items' = [found_items EXCEPT ![p] =
                       @ \o ArcResultOnUpsertError(is_in_stock[p], prev_in_stock[p])]
  /\ pc' = [pc EXCEPT ![p] = "notify"]
  /\ cyc' = [cyc EXCEPT ![p].upsert = "failed"]
  /\ hist' = [ArcBroken(hist) EXCEPT !.store_ok = FALSE]
  /\ UNCHANGED <<env, store, cycles, catalog_locals, arc_locals, channels,
                 exit_code>>

(***************************************************************************)
(* main(), step 3: notifications (lines 286-291, 172-248).                 *)
(***************************************************************************)
\* line 290: nothing found, main() returns
NoNotification(p) ==
  /\ pc[p] = "notify"
  /\ found_items[p] = << >>
  /\ pc' = [pc EXCEPT ![p] = "done"]
  /\ exit_code' = [exit_code EXCEPT ![p] = 0]
  /\ UNCHANGED <<env, store, cycles, catalog_locals, found_items, arc_locals,
                 channels, cyc, hist>>

\* a variant in which a failed delivery is not caught either
Escapes_DeliveryErrors(status) == status \in {"raised", "failed"}

\* Does an exception leave send_*_notification?  Rendering (lines 181-191,
\* 217-230) is outside the try; the delivery (lines 199-207, 244-248) is inside.
Escapes(status) == status = "raised"

\* The outcomes of one channel for new_items: not configured, the rendering
\* raises, or the delivery is attempted and goes through or fails.
ChannelOutcomes(enabled, new_items, body) ==
  IF ~enabled THEN { [status |-> "disabled", body |-> << >>] }
  ELSE IF AnyRenderRaises(new_items) THEN { [status |-> "raised", body |-> << >>] }
  ELSE { [status |-> "sent", body |-> body], [status |-> "failed", body |-> body] }

\* line 288
SendEmail(p) ==
  /\ pc[p] = "notify"
  /\ found_items[p] # << >>
  /\ \E out \in ChannelOutcomes(EmailEnabled(env), found_items[p],
                                RenderAll(found_items[p])) :
       /\ email' = [email EXCEPT ![p] = out]
       /\ IF Escapes(out.status)
            THEN /\ pc' = [pc EXCEPT ![p] = "done"]
                 /\ exit_code' = [exit_code EXCEPT ![p] = 1]
            ELSE /\ pc' = [pc EXCEPT ![p] = "discord"]
                 /\ UNCHANGED exit_code
  /\ UNCHANGED <<env, store, cycles, catalog_locals, found_items, arc_locals,
                 discord, cyc, hist>>

\* line 289, then main() returns
SendDiscord(p) ==
  /\ pc[p] = "discord"
  /\ \E out \in ChannelOutcomes(DiscordEnabled(env), found_items[p],
                                Truncate(RenderAll(found_items[p]))) :
       /\ discord' = [discord EXCEPT ![p] = out]
       /\ exit_code' = [exit_code EXCEPT ![p] = IF Escapes(out.status) THEN 1 ELSE 0]
  /\ pc' = [pc EXCEPT ![p] = "done"]
  /\ UNCHANGED <<env, store, cycles, catalog_locals, found_items, arc_locals,
                 email, cyc, hist>>

(***************************************************************************)
(* Specifications.                                                         *)
(***************************************************************************)
Step(p) ==
  \/ FetchCatalogFail(p)
  \/ FetchCatalogOk(p)
  \/ LoadExistingIds(p)
  \/ RunCatalogLoop(p)
  \/ ArcFetchFail(p)
  \/ ArcFetchOk(p)
  \/ ArcReadPrevious(p)
  \/ ArcUpsertOk(p)
  \/ ArcUpsertFail(p)
  \/ NoNotification(p)
  \/ SendEmail(p)
  \/ SendDiscord(p)

\* Runs one after the other, as the external scheduler is assumed to arrange.
Next == Start(1) \/ Step(1)

Spec == Init /\ [][Next]_vars

\* The same runs when the catalog request fails in every run, so that only the
\* variant tracker is exercised, over MaxArcCycles runs.
StartArc(p) ==
  /\ cycles < MaxArcCycles
  /\ \A q \in Procs : pc[q] \in {"idle", "done"}
  /\ Begin(p)

NextArc ==
  \/ StartArc(1)
  \/ FetchCatalogFail(1)
  \/ ArcFetchFail(1)
  \/ ArcFetchOk(1)
  \/ ArcReadPrevious(1)
  \/ ArcUpsertOk(1)
  \/ ArcUpsertFail(1)
  \/ NoNotification(1)
  \/ SendEmail(1)
  \/ SendDiscord(1)

SpecArc == Init /\ [][NextArc]_vars

\* Runs that the scheduler lets overlap: nothing in the script keeps a second
\* process from starting while the first is still running.
StartOverlapping(p) ==
  /\ cycles < MaxCycles
  /\ Begin(p)

NextOverlap == \E p \in Procs : StartOverlapping(p) \/ Step(p)

SpecOverlap == Init /\ [][NextOverlap]_vars

\* The notifications alone, for long lists of events: a first run whose
\* catalog had n new belts, every store call having succeeded, and whose
\* variant check found the variant in stock or not, is about to notify.
Belts(n) ==
  [i \in 1..n |-> Product(FirstId + i - 1, RedBelt, << [price |-> "29.99"] >>, {})]

InitPayload ==
  /\ env \in { e \in Envs : e.SUPABASE_KEY }
  /\ cycles = 1
  /\ pc = [p \in Procs |-> IF p = 1 THEN "notify" ELSE "idle"]
  /\ existing_ids = [p \in Procs |-> {}]
  /\ email = [p \in Procs |-> NotCalled]
  /\ discord = [p \in Procs |-> NotCalled]
  /\ exit_code = [p \in Procs |-> 0]
  /\ prev_in_stock = [p \in Procs |-> FALSE]
  /\ \E n \in 0..MaxEvents, in_stock \in BOOLEAN :
       LET empty == [id \in FirstId..(FirstId + MaxEvents - 1) |-> NoRow]
           none == [p \in Procs |-> << >>]
       IN  /\ products = [none EXCEPT ![1] = Belts(n)]
           /\ seen_items = save_all_belts(empty, Belts(n), TRUE)
           /\ is_in_stock = [p \in Procs |-> p = 1 /\ in_stock]
           /\ arcteryx_tracker = TrackerRow(in_stock, 1)
           /\ found_items = [none EXCEPT ![1] = Belts(n) \o ArcResult(in_stock, FALSE)]
           /\ cyc = [p \in Procs |->
                      IF p = 1
                        THEN [NewCyc(1, empty, NoRow, {}) EXCEPT
                                !.catalog = "ok", !.arc = "ok", !.upsert = "ok",
                                !.variant_found = in_stock]
                        ELSE NewCyc(0, empty, NoRow, {})]
           /\ hist = [notified |-> IdsIn(Belts(n)), store_ok |-> TRUE,
                      arc_ok |-> TRUE, obs |-> << in_stock >>,
                      found |-> << in_stock >>,
                      restocks |-> Len(ArcResult(in_stock, FALSE))]

NextPayload == NoNotification(1) \/ SendEmail(1) \/ SendDiscord(1)

SpecPayload == InitPayload /\ [][NextPayload]_vars

(***************************************************************************)
(* Properties.                                                             *)
(***************************************************************************)
Finished(p) == pc[p] = "done"

\* the events of a run: the catalog's new items, then the restock item
RestockEmitted(p) == \E i \in 1..Len(found_items[p]) : found_items[p][i] = RestockItem
NewItems(p) == SelectSeq(found_items[p], LAMBDA it : it # RestockItem)

\* check_arcteryx_stock has run to its end in the current run of p, with the
\* page fetched and the tracker read and written
ArcWentThrough(p) ==
  /\ pc[p] \in {"notify", "discord", "done"}
  /\ cyc[p].arc = "ok" /\ cyc[p].read_ok /\ cyc[p].upsert = "ok"

PersistedInStock(row) == row # NoRow /\ row.in_stock

\* number of false->true transitions of a sequence of observations, the
\* state before the first observation counting as false
RECURSIVE Edges(_)
Edges(obs) ==
  IF obs = << >> THEN 0
  ELSE LET n == Len(obs)
           rising == obs[n] /\ (n = 1 \/ ~obs[n - 1])
       IN  Edges(SubSeq(obs, 1, n - 1)) + (IF rising THEN 1 ELSE 0)

\* C1: over runs in which the page fetch and the tracker read and write all
\* succeed, a run emits the Restock event iff it observes the variant in
\* stock and the row persisted before the run was out of stock or absent; so
\* the events number the false->true transitions of the observations:
\* two for [F,F,T,T,F,T], one for a first observation of true.
C1_EdgeTriggered ==
  /\ \A p \in Procs :
       ArcWentThrough(p) =>
         (RestockEmitted(p) <=>
            (is_in_stock[p] /\ ~PersistedInStock(cyc[p].tracker_before)))
  /\ hist.arc_ok => hist.restocks = Edges(hist.obs)
  /\ (hist.arc_ok /\ hist.obs = <<FALSE, FALSE, TRUE, TRUE, FALSE, TRUE>>)
       => hist.restocks = 2
  /\ (hist.arc_ok /\ hist.obs = <<TRUE>>) => hist.restocks = 1

C1_Witness ==
  /\ hist.arc_ok
  /\ hist.obs = <<FALSE, FALSE, TRUE, TRUE, FALSE, TRUE>>
  /\ hist.restocks = 2
  /\ Finished(1) /\ RestockEmitted(1)

\* the loop over the catalog has run in the current run of p
LoopDone(p) ==
  /\ cyc[p].catalog = "ok"
  /\ pc[p] \in {"arc_fetch", "arc_read", "arc_upsert", "notify", "discord", "done"}

\* the known ids as persisted when the run began, stringified; nothing when
\* the select failed
KnownAtStart(p) ==
  IF cyc[p].load_ok THEN { Str(id) : id \in cyc[p].seen_before } ELSE {}

AllBelts(prods) == \A i \in 1..Len(prods) : IsBelt(prods[i])
DistinctIds(prods) == Cardinality(IdsIn(prods)) = Len(prods)

\* C2: after the catalog loop the new-item events are exactly the catalog's
\* items, in order, whose title matches the keyword and whose stringified id
\* is not among the ids persisted before the run's first upsert; the
\* snapshot in existing_ids is that set and the run's own upserts do not
\* refresh it.  For a catalog of belts with distinct ids the events are the
\* ids the store did not hold (known {100}, catalog {100,101}: one event,
\* id 101).
C2_NewEntityDetection ==
  \A p \in Procs :
    /\ (cyc[p].catalog = "ok" /\ pc[p] \notin {"fetch", "load"})
         => existing_ids[p] = KnownAtStart(p)
    /\ LoopDone(p) =>
         /\ NewItems(p) =
              SelectSeq(products[p],
                        LAMBDA it : IsBelt(it) /\ Str(it.id) \notin KnownAtStart(p))
         /\ (cyc[p].load_ok /\ AllBelts(products[p]) /\ DistinctIds(products[p]))
              => /\ IdsIn(NewItems(p)) = IdsIn(products[p]) \ cyc[p].seen_before
                 /\ Len(NewItems(p)) =
                      Cardinality(IdsIn(products[p]) \ cyc[p].seen_before)

C2_Witness ==
  /\ LoopDone(1) /\ cyc[1].load_ok
  /\ cyc[1].seen_before = {100}
  /\ Len(products[1]) = 2 /\ AllBelts(products[1])
  /\ products[1][1].id = 100 /\ products[1][2].id = 101
  /\ seen_items[101] # NoRow
  /\ NewItems(1) = << products[1][2] >>

\* a channel has attempted a delivery whose message has the entry of item
Delivered(ch, item) ==
  /\ ch.status \in {"sent", "failed"}
  /\ \E i \in 1..Len(ch.body) : ch.body[i] = RenderEntry(item)

\* every configured channel has attempted a delivery that has item's entry
DeliveredByAll(p, item) ==
  /\ EmailEnabled(env) => Delivered(email[p], item)
  /\ DiscordEnabled(env) => Delivered(discord[p], item)

\* C3: while every store read and write succeeds, an id produces a new-item
\* event in at most one run, and at most once in that run.
C3_NoDuplicateNewItem ==
  hist.store_ok =>
    \A p \in Procs :
      /\ DistinctIds(NewItems(p))
      /\ IdsIn(NewItems(p)) \cap cyc[p].notified_before = {}

\* C4: when a run has written a belt's id to seen_items for the first time,
\* the run hands a new-item event for it to the notifications and every
\* configured channel attempts a delivery that includes it.
C4_NoMissedNewItem ==
  \A p \in Procs :
    (Finished(p) /\ cyc[p].catalog = "ok") =>
      \A i \in 1..Len(products[p]) :
        (IsBelt(products[p][i]) /\ products[p][i].id \in StoredIds(seen_items)
           /\ products[p][i].id \notin cyc[p].seen_before)
          => /\ \E j \in 1..Len(found_items[p]) :
                  found_items[p][j].id = products[p][i].id
             /\ \E j \in 1..Len(found_items[p]) :
                  /\ found_items[p][j].id = products[p][i].id
                  /\ DeliveredByAll(p, found_items[p][j])

\* the last product of prods that has the id
LastWithId(prods, id) ==
  prods[CHOOSE i \in 1..Len(prods) :
          /\ prods[i].id = id
          /\ \A j \in (i + 1)..Len(prods) : prods[j].id # id]

\* C5: when the catalog was fetched and every upsert of the run went
\* through, seen_items holds the id of every belt the catalog returned, with
\* the first-variant price of its last occurrence, known before or not.
C5_UpsertAllBelts ==
  \A p \in Procs :
    (LoopDone(p) /\ cyc[p].writes_ok) =>
      \A i \in 1..Len(products[p]) :
        IsBelt(products[p][i]) =>
          /\ seen_items[products[p][i].id] # NoRow
          /\ AllBelts(products[p]) =>
               seen_items[products[p][i].id].price =
                 FirstPrice(LastWithId(products[p], products[p][i].id))

\* C6: with one run at a time and the store reachable, no new id and no
\* false->true transition is notified by two runs.
C6_NoDuplicateWhenSerial ==
  hist.store_ok =>
    \A p \in Procs :
      /\ IdsIn(NewItems(p)) \cap cyc[p].notified_before = {}
      /\ (RestockEmitted(p) /\ cyc[p].upsert = "ok")
           => ~PersistedInStock(cyc[p].tracker_before)

Attempted(ch) == ch.status \in {"sent", "failed"}

\* Reachable under SpecOverlap, with every store call succeeding and no
\* tagged, variant-less or repeated product: two overlapping runs both
\* notify the same new id, the second having loaded its snapshot before the
\* first one's upsert.
OverlappingRunsNotifyTwice ==
  /\ hist.store_ok
  /\ \A p \in Procs :
       /\ DistinctIds(products[p])
       /\ \A i \in 1..Len(products[p]) :
            ~SkippedBySave(products[p][i]) /\ products[p][i].variants # << >>
  /\ IdsIn(NewItems(1)) \cap IdsIn(NewItems(2)) # {}

\* C7: a failed e-mail delivery is caught: the run goes on to the webhook
\* channel, which gets the same events (its fields are the e-mail's entries,
\* cut to the webhook's limit), and the run ends with status 0; a failed
\* webhook delivery leaves the e-mail's outcome as it was and the status 0.
C7_ChannelIsolation ==
  \A p \in Procs :
    /\ email[p].status = "failed" =>
         /\ pc[p] \in {"discord", "done"}
         /\ Finished(p) =>
              /\ exit_code[p] = 0
              /\ discord[p].status # "not called"
              /\ DiscordEnabled(env) =>
                   /\ Attempted(discord[p])
                   /\ discord[p].body = Truncate(email[p].body)
                   /\ discord[p].body = Truncate(RenderAll(found_items[p]))
    /\ discord[p].status = "failed" =>
         /\ Finished(p) /\ exit_code[p] = 0
         /\ email[p].status \in {"sent", "failed", "disabled"}
         /\ EmailEnabled(env) =>
              /\ Attempted(email[p])
              /\ email[p].body = RenderAll(found_items[p])

C7_Witness ==
  /\ Finished(1) /\ exit_code[1] = 0
  /\ email[1].status = "failed"
  /\ discord[1].status = "sent"
  /\ Len(discord[1].body) = 2
  /\ RestockEmitted(1) /\ NewItems(1) # << >>

\* C8: when the catalog request fails the run has no new-item event, still
\* checks the variant, and a Restock event it produces is delivered by every
\* configured channel; when the variant page request fails, the new items
\* the loop found are the events handed to the notifications, and are
\* delivered by every configured channel whenever they render.
C8_SourceIndependence ==
  \A p \in Procs :
    /\ cyc[p].catalog = "failed" =>
         /\ NewItems(p) = << >>
         /\ Finished(p) =>
              /\ cyc[p].arc # "none"
              /\ exit_code[p] = 0
              /\ RestockEmitted(p) =>
                   /\ email[p].status # "not called"
                   /\ discord[p].status # "not called"
                   /\ DeliveredByAll(p, RestockItem)
    /\ (LoopDone(p) /\ Finished(p) /\ cyc[p].arc = "failed") =>
         /\ found_items[p] =
              SelectSeq(products[p],
                        LAMBDA it : IsBelt(it) /\ Str(it.id) \notin existing_ids[p])
         /\ found_items[p] # << >> =>
              /\ email[p].status # "not called"
              /\ ~AnyRenderRaises(found_items[p]) =>
                   \A i \in 1..Len(found_items[p]) :
                     DeliveredByAll(p, found_items[p][i])

C8_Witness ==
  /\ Finished(1) /\ cyc[1].catalog = "failed"
  /\ found_items[1] = << RestockItem >>
  /\ email[1].status = "sent" /\ discord[1].status = "sent"

\* C9: when the select of the known ids fails, existing_ids is empty, every
\* belt of the catalog is a new-item event, also one notified in an earlier
\* run, and the run goes on to the variant check.
C9_LoadFailureNonFatal ==
  \A p \in Procs :
    (cyc[p].catalog = "ok" /\ ~cyc[p].load_ok) =>
      /\ pc[p] # "load" => existing_ids[p] = {}
      /\ LoopDone(p) => NewItems(p) = SelectSeq(products[p], IsBelt)
      /\ Finished(p) => cyc[p].arc # "none"

C9_Witness ==
  /\ Finished(1) /\ cyc[1].catalog = "ok" /\ ~cyc[1].load_ok
  /\ cyc[1].seen_before = {100} /\ 100 \in cyc[1].notified_before
  /\ Len(NewItems(1)) = 2
  /\ NewItems(1)[1].id = 100

\* C10: a failed upsert loses only the write: the events of the run are
\* those it would have had with the write succeeding (the catalog's new
\* items, and the Restock event iff the variant is in stock and was not
\* before), and the run still reaches the notifications.
C10_FailedUpsertLosesOnlyWrite ==
  \A p \in Procs :
    (Finished(p) /\ cyc[p].arc = "ok") =>
      /\ RestockEmitted(p) <=> (is_in_stock[p] /\ ~prev_in_stock[p])
      /\ cyc[p].catalog = "ok" =>
           NewItems(p) =
             SelectSeq(products[p],
                       LAMBDA it : IsBelt(it) /\ Str(it.id) \notin existing_ids[p])
      /\ found_items[p] # << >> => email[p].status # "not called"

\* the page was fetched and the upsert of line 153 went through in the
\* current run of p
TrackerWritten(p) ==
  /\ pc[p] \in {"notify", "discord", "done"}
  /\ cyc[p].arc = "ok" /\ cyc[p].upsert = "ok"

\* C11: arcteryx_tracker holds at most the one row of ARCTERYX_ID, and once a
\* run has fetched the page and its upsert went through, that row is the
\* run's snapshot: in_stock is the value the run observed and last_checked
\* the run's time, whether the run emitted a Restock event or not and
\* whatever the row was before.
C11_SnapshotOverwrite ==
  /\ arcteryx_tracker # NoRow => arcteryx_tracker.variant_id = ARCTERYX_ID
  /\ \A p \in Procs :
       TrackerWritten(p) =>
         /\ arcteryx_tracker # NoRow
         /\ arcteryx_tracker.in_stock = is_in_stock[p]
         /\ arcteryx_tracker.last_checked = cyc[p].n
         /\ arcteryx_tracker = TrackerRow(is_in_stock[p], cyc[p].n)

\* a run without an event overwrites an in-stock row with out of stock
C11_Witness ==
  /\ Finished(1) /\ TrackerWritten(1)
  /\ PersistedInStock(cyc[1].tracker_before)
  /\ ~is_in_stock[1] /\ ~RestockEmitted(1)
  /\ arcteryx_tracker.in_stock = FALSE
  /\ arcteryx_tracker.last_checked > cyc[1].tracker_before.last_checked

\* the ids of the belts of a catalog
BeltIds(prods) == { prods[i].id : i \in { j \in 1..Len(prods) : IsBelt(prods[j]) } }

\* C12: a product whose lowercased title does not contain the keyword is
\* never among the new-item events and is never written to seen_items: every
\* event and every stored row has a title with the keyword, and after the
\* loop an id that only products without the keyword carry is stored iff it
\* was stored before the run; with the id known or not, and with the select
\* or the upserts failing or not.
C12_KeywordFilter ==
  /\ \A id \in DOMAIN seen_items :
       seen_items[id] # NoRow
         => Contains(HALF_SUMO_KEYWORD, Lower(seen_items[id].title))
  /\ \A p \in Procs :
       /\ \A i \in 1..Len(NewItems(p)) :
            Contains(HALF_SUMO_KEYWORD, Lower(NewItems(p)[i].title))
       /\ LoopDone(p) =>
            \A i \in 1..Len(products[p]) :
              ~Contains(HALF_SUMO_KEYWORD, Lower(products[p][i].title)) =>
                /\ \A j \in 1..Len(found_items[p]) : found_items[p][j] # products[p][i]
                /\ products[p][i].id \notin BeltIds(products[p]) =>
                     (products[p][i].id \in StoredIds(seen_items)
                        <=> products[p][i].id \in cyc[p].seen_before)

\* the select fails, and the catalog has 'Hat' under a known and an unknown id
C12_Witness ==
  /\ LoopDone(1) /\ ~cyc[1].load_ok
  /\ cyc[1].seen_before = {100}
  /\ Len(products[1]) = 2
  /\ products[1][1].title = Hat /\ products[1][1].id = 100
  /\ products[1][2].title = Hat /\ products[1][2].id = 101
  /\ found_items[1] = << >>
  /\ seen_items[101] = NoRow

\* the settings each channel needs are all present in the environment
EmailConfigured == env.SENDER_EMAIL /\ env.SENDER_PASSWORD /\ env.RECEIVER_EMAIL
WebhookConfigured == env.DISCORD_WEBHOOK_URL

Skipped(ch) == ch.status \in {"not called", "disabled"} /\ ch.body = << >>

\* C13: with neither channel configured, the notifications of a non-empty
\* list of events return without a delivery attempt and without raising,
\* whatever the events are, and the run ends with status 0; a channel that
\* lacks a setting is skipped, and the other one still attempts its delivery
\* of all the events.
C13_NoChannelNoOp ==
  \A p \in Procs :
    /\ (env.SUPABASE_KEY /\ ~EmailConfigured /\ ~WebhookConfigured) =>
         /\ Skipped(email[p]) /\ Skipped(discord[p])
         /\ Finished(p) =>
              /\ exit_code[p] = 0
              /\ found_items[p] # << >> =>
                   email[p].status = "disabled" /\ discord[p].status = "disabled"
    /\ ~EmailConfigured =>
         /\ Skipped(email[p])
         /\ (Finished(p) /\ env.SUPABASE_KEY /\ found_items[p] # << >>) =>
              /\ discord[p].status # "not called"
              /\ (WebhookConfigured /\ ~AnyRenderRaises(found_items[p])) =>
                   /\ Attempted(discord[p])
                   /\ discord[p].body = Truncate(RenderAll(found_items[p]))
    /\ ~WebhookConfigured =>
         /\ Skipped(discord[p])
         /\ (Finished(p) /\ EmailConfigured /\ found_items[p] # << >>
               /\ ~AnyRenderRaises(found_items[p])) =>
              /\ Attempted(email[p])
              /\ email[p].body = RenderAll(found_items[p])
              /\ discord[p].status = "disabled"

\* nothing is configured and the events include one that would not render
C13_Witness ==
  /\ Finished(1) /\ exit_code[1] = 0
  /\ ~env.SENDER_EMAIL /\ ~env.SENDER_PASSWORD /\ ~env.RECEIVER_EMAIL
  /\ ~env.DISCORD_WEBHOOK_URL
  /\ Len(found_items[1]) = 3 /\ RestockEmitted(1)
  /\ AnyRenderRaises(found_items[1])
  /\ email[1].status = "disabled" /\ discord[1].status = "disabled"

\* C14: of n events every message lists at most 25: the webhook's embed has
\* the first min(n, 25) of them as its fields, the e-mail lists no more than
\* 25, and when events are cut off the number cut off is logged.
C14_PayloadCap ==
  \A p \in Procs :
    LET n == Len(found_items[p])
        kept == IF n < DISCORD_MAX_FIELDS THEN n ELSE DISCORD_MAX_FIELDS
    IN  /\ Attempted(discord[p]) =>
             /\ Len(discord[p].body) = kept
             /\ discord[p].body = SubSeq(RenderAll(found_items[p]), 1, kept)
             /\ n > kept => (n - kept) \in LoggedCounts(found_items[p])
        /\ Attempted(email[p]) => Len(email[p].body) <= DISCORD_MAX_FIELDS

\* Holds under SpecPayload: the part of C14 that the code implements, the
\* webhook's fields being the first min(n, 25) events in detection order.
WebhookFieldsCapped ==
  \A p \in Procs :
    LET n == Len(found_items[p])
        kept == IF n < DISCORD_MAX_FIELDS THEN n ELSE DISCORD_MAX_FIELDS
    IN  Attempted(discord[p]) =>
          /\ Len(discord[p].body) = kept
          /\ discord[p].body = SubSeq(RenderAll(found_items[p]), 1, kept)

\* C15: without the store key a run ends with status 1 before any step of
\* main(): no request to either source, no store call (the tables stay as
\* they were, empty), no notification.  With the key, a run that reaches
\* the end of main() has status 0, whether it found events or not and
\* whatever requests, store calls or deliveries failed on the way; only a
\* run cut short by an exception in the rendering has another status.
C15_StartupAndExit ==
  \A p \in Procs :
    /\ ~env.SUPABASE_KEY =>
         /\ pc[p] \in {"idle", "done"}
         /\ cyc[p].catalog = "none" /\ cyc[p].arc = "none"
         /\ products[p] = << >> /\ found_items[p] = << >>
         /\ email[p] = NotCalled /\ discord[p] = NotCalled
         /\ StoredIds(seen_items) = {} /\ arcteryx_tracker = NoRow
         /\ cyc[p].n > 0 => Finished(p) /\ exit_code[p] = 1
    /\ (env.SUPABASE_KEY /\ Finished(p)) =>
         /\ cyc[p].catalog # "none" /\ cyc[p].arc # "none"
         /\ found_items[p] = << >> =>
              exit_code[p] = 0 /\ email[p] = NotCalled /\ discord[p] = NotCalled
         /\ ~AnyRenderRaises(found_items[p]) =>
              /\ exit_code[p] = 0
              /\ found_items[p] # << >> =>
                   /\ email[p].status \in {"sent", "failed", "disabled"}
                   /\ discord[p].status \in {"sent", "failed", "disabled"}
         /\ exit_code[p] # 0 =>
              email[p].status = "raised" \/ discord[p].status = "raised"

\* a second run that finds nothing, after a first run that found a new item
C15_Witness ==
  /\ env.SUPABASE_KEY /\ Finished(1) /\ cyc[1].n = 2
  /\ exit_code[1] = 0
  /\ found_items[1] = << >> /\ cyc[1].catalog = "ok" /\ products[1] # << >>
  /\ cyc[1].notified_before # {}

\* the catalog [{id 100, title 'Red Belt', first variant price 29.99,
\* handle 'red-belt'}]
ExampleCatalog ==
  << [id |-> 100, title |-> RedBelt, variants |-> << [price |-> "29.99"] >>,
      handle |-> "red-belt", tags |-> {}] >>

ExampleEntry ==
  [title |-> RedBelt, price |-> "29.99",
   link |-> <<"https://halfsumo.com/products/", "red-belt">>]

\* what a message must carry for an event
ExpectedEntry(item) ==
  IF "link" \in DOMAIN item /\ item = RestockItem
    THEN [title |-> "RESTOCK: Bird Head Toque (Orca)", price |-> "Check Site",
          link |-> "https://arcteryx.com/us/en/shop/bird-head-toque"]
    ELSE [title |-> item.title, price |-> item.variants[1].price,
          link |-> <<"https://halfsumo.com/products/", item.handle>>]

\* C16: in every message a delivery was attempted with, the entry of a new
\* item carries its title, the price of its first variant and the link
\* https://halfsumo.com/products/<handle>, and the entry of the Restock
\* event carries the event's own link and the price 'Check Site'.  For the
\* catalog [{100, 'Red Belt', 29.99, 'red-belt'}] with no id known, the loop
\* yields exactly that one new item, its entry is ('Red Belt', 29.99,
\* https://halfsumo.com/products/red-belt), and seen_items then holds id 100.
C16_EventRendering ==
  \A p \in Procs :
    /\ Attempted(email[p]) =>
         /\ Len(email[p].body) = Len(found_items[p])
         /\ \A i \in 1..Len(email[p].body) :
              email[p].body[i] = ExpectedEntry(found_items[p][i])
    /\ Attempted(discord[p]) =>
         \A i \in 1..Len(discord[p].body) :
           discord[p].body[i] = ExpectedEntry(found_items[p][i])
    /\ (LoopDone(p) /\ products[p] = ExampleCatalog /\ existing_ids[p] = {}) =>
         /\ NewItems(p) = ExampleCatalog
         /\ cyc[p].writes_ok =>
              /\ 100 \in StoredIds(seen_items)
              /\ seen_items[100] = [title |-> RedBelt, price |-> "29.99"]
         /\ Attempted(email[p]) => email[p].body[1] = ExampleEntry
         /\ Attempted(discord[p]) => discord[p].body[1] = ExampleEntry

\* the example's run, which also has the Restock event, after both deliveries
C16_Witness ==
  /\ Finished(1) /\ cyc[1].n = 1 /\ cyc[1].load_ok /\ cyc[1].writes_ok
  /\ products[1] = ExampleCatalog
  /\ found_items[1] = ExampleCatalog \o << RestockItem >>
  /\ StoredIds(seen_items) = {100}
  /\ email[1].status = "sent" /\ discord[1].status = "sent"
  /\ email[1].body[1] = ExampleEntry
  /\ discord[1].body[2].price = "Check Site"
  /\ discord[1].body[2].link = ARCTERYX_URL

\* C17: a run whose request for the variant page fails emits no Restock
\* event and leaves the arcteryx_tracker row, in_stock and last_checked, as
\* it was before the run; so the previous state a later run reads is the
\* one written by the last run that fetched the page, not by the failed one.
C17_FetchFailureLeavesState ==
  \A p \in Procs :
    /\ cyc[p].arc = "failed" =>
         /\ pc[p] \in {"notify", "discord", "done"}
         /\ ~RestockEmitted(p)
         /\ arcteryx_tracker = cyc[p].tracker_before
         /\ is_in_stock[p] = FALSE /\ cyc[p].upsert = "none"
    /\ (cyc[p].arc = "ok" /\ cyc[p].read_ok
          /\ pc[p] \in {"arc_upsert", "notify", "discord", "done"}) =>
         /\ prev_in_stock[p] = PersistedInStock(cyc[p].tracker_before)
         /\ cyc[p].tracker_before # NoRow =>
              cyc[p].tracker_before.last_checked < cyc[p].n

\* run 1 records in stock, the request of run 2 fails, run 3 sees the variant
\* in stock and, comparing with the row of run 1, emits nothing
C17_Witness ==
  /\ Finished(1) /\ cyc[1].n = 3 /\ hist.store_ok
  /\ ArcWentThrough(1)
  /\ cyc[1].tracker_before # NoRow
  /\ cyc[1].tracker_before.last_checked = 1
  /\ cyc[1].tracker_before.in_stock
  /\ is_in_stock[1] /\ prev_in_stock[1]
  /\ ~RestockEmitted(1)

\* C18: when the page is fetched and no button names the variant, the run
\* goes on as after any other page: it observes out of stock, emits no
\* Restock event, and its upsert records in_stock false; so when the next
\* run that fetches the page finds the variant in stock it emits a Restock
\* event, also when the row said in stock before the variant went missing.
C18_VariantNotFound ==
  /\ \A p \in Procs :
       (cyc[p].arc = "ok" /\ ~cyc[p].variant_found) =>
         /\ pc[p] \in {"arc_read", "arc_upsert", "notify", "discord", "done"}
         /\ ~is_in_stock[p]
         /\ ~RestockEmitted(p)
         /\ TrackerWritten(p) =>
              arcteryx_tracker.in_stock = FALSE
                /\ arcteryx_tracker.last_checked = cyc[p].n
         /\ (Finished(p) /\ cyc[p].catalog = "failed") =>
              exit_code[p] = 0 /\ found_items[p] = << >>
  /\ \A k \in 2..Len(hist.obs) :
       (hist.arc_ok /\ ~hist.found[k - 1] /\ hist.obs[k]) =>
         /\ ~hist.obs[k - 1]
         /\ hist.restocks >= 1
         /\ (k = Len(hist.obs) /\ ArcWentThrough(1)) => RestockEmitted(1)

\* in stock, then the variant missing from the page, then in stock again:
\* two Restock events
C18_Witness ==
  /\ Finished(1) /\ hist.arc_ok
  /\ hist.obs = <<TRUE, FALSE, TRUE>>
  /\ hist.found = <<TRUE, FALSE, TRUE>>
  /\ hist.restocks = 2
  /\ RestockEmitted(1)

\* the events of a run in detection order: the catalog's new items, then the
\* Restock event
CycleEvents(p) ==
  SelectSeq(products[p], LAMBDA it : IsBelt(it) /\ Str(it.id) \notin existing_ids[p])
    \o (IF RestockEmitted(p) THEN << RestockItem >> ELSE << >>)

\* a finished run of p has batched its events: each configured channel has
\* attempted a delivery iff there are events, with one message that has the
\* entries of all of them in order
Batched(p) ==
  /\ found_items[p] = CycleEvents(p)
  /\ EmailConfigured =>
       /\ Attempted(email[p]) <=> found_items[p] # << >>
       /\ Attempted(email[p]) =>
            /\ Len(email[p].body) = Len(found_items[p])
            /\ \A i \in 1..Len(found_items[p]) :
                 email[p].body[i].title = found_items[p][i].title
  /\ WebhookConfigured =>
       /\ Attempted(discord[p]) <=> found_items[p] # << >>
       /\ Attempted(discord[p]) =>
            /\ Len(discord[p].body) = Len(found_items[p])
            /\ \A i \in 1..Len(found_items[p]) :
                 discord[p].body[i].title = found_items[p][i].title

\* a step of the notifications leaves both tables alone and does not repeat
\* a delivery attempt
DispatchStep(p) ==
  pc[p] \in {"notify", "discord"} =>
    /\ seen_items' = seen_items /\ arcteryx_tracker' = arcteryx_tracker
    /\ found_items'[p] = found_items[p]
    /\ Attempted(email[p]) => email'[p] = email[p]
    /\ Attempted(discord[p]) => discord'[p] = discord[p]

\* C19: a run that ends has made, on each configured channel, one delivery
\* attempt iff it has events and none otherwise, the message carrying all
\* the run's events (the catalog's new items in catalog order, then the
\* Restock event); and no step of the notifications changes seen_items or
\* arcteryx_tracker.
C19_BatchedDispatch ==
  /\ [](\A p \in Procs : (env.SUPABASE_KEY /\ Finished(p)) => Batched(p))
  /\ [][\A p \in Procs : DispatchStep(p)]_vars

\* Holds under Spec: C19 for the runs whose events all render, and the
\* notifications never changing the store.
BatchedWhenRendered ==
  /\ [](\A p \in Procs :
          (env.SUPABASE_KEY /\ Finished(p) /\ ~AnyRenderRaises(found_items[p]))
            => Batched(p))
  /\ [][\A p \in Procs : DispatchStep(p)]_vars

====
